---- MODULE Spec2Model ----
(***************************************************************************)
(* Model of scripts/load_generator.py: the LoadGenerator class.            *)
(*                                                                         *)
(* One orchestrator (run), one daemon reporter thread (print_stats) and    *)
(* the worker threads (worker) that call the four executors                *)
(* (insert_records, update_records, select_records, delete_records).       *)
(*                                                                         *)
(* The threads share the stop flag self.running, the counters self.stats   *)
(* and the connection pool.  A step of a thread is one access to that      *)
(* shared state together with the statements around it that touch only     *)
(* the thread's own locals and its own connection; threads interleave      *)
(* between steps.  `self.stats[k] += n` loads and then stores the counter, *)
(* so it is two steps.  Every database call (getconn, execute, commit,     *)
(* rollback) either succeeds or raises; which, is an input of the step.    *)
(*                                                                         *)
(* Spec runs the light profile, whose two workers the model runs in full,   *)
(* from start to process exit.  SpecProfiles runs each of the five         *)
(* profiles up to the interrupt, with the workers that every profile has   *)
(* scheduled.  FairSpec runs run() and the workers of the light profile    *)
(* under the scheduling of the threads, without the reporter.  The         *)
(* tenant picked by random.choice(CLIENTS) only names the table in the     *)
(* statement and in the error line, and is left out.                       *)
(***************************************************************************)
EXTENDS Integers, FiniteSets, Sequences, TLC

\* ---- bounds of the model ------------------------------------------------
MaxOps == 2          \* at most this many executor calls are begun in a run

\* ---- program constants --------------------------------------------------
MAXCONN == 20
UPDATE_LIMIT == 50
DELETE_LIMIT == 20
RANDOM_BATCH_MIN == 10
RANDOM_BATCH_MAX == 200
RANDOM_DELAY_MIN == 100     \* milliseconds
RANDOM_DELAY_MAX == 2000    \* milliseconds

Modes == {"light", "medium", "heavy", "spike", "chaos"}

\* the profile the specification runs
SpecModes == {"light"}

OPERATIONS == {"insert", "update", "select", "delete"}

WEIGHTS == [insert |-> 40, update |-> 25, select |-> 30, delete |-> 5]

Counters == {"inserts", "updates", "selects", "deletes"}

Fixed(v) == <<"fixed", v>>

Random == <<"random", 0>>

IsRandom(x) == x[1] = "random"

\* a table with a profile of more workers than the pool has connections
configsOversized ==
    [light  |-> [workers |-> 2,  delay |-> Fixed(1000), batch_size |-> Fixed(10)],
     medium |-> [workers |-> 5,  delay |-> Fixed(500),  batch_size |-> Fixed(50)],
     heavy  |-> [workers |-> 10, delay |-> Fixed(100),  batch_size |-> Fixed(100)],
     spike  |-> [workers |-> 25, delay |-> Fixed(50),   batch_size |-> Fixed(200)],
     chaos  |-> [workers |-> 8,  delay |-> Random,      batch_size |-> Random]]

\* self.configs; delays are in milliseconds
configs ==
    [light  |-> [workers |-> 2,  delay |-> Fixed(1000), batch_size |-> Fixed(10)],
     medium |-> [workers |-> 5,  delay |-> Fixed(500),  batch_size |-> Fixed(50)],
     heavy  |-> [workers |-> 10, delay |-> Fixed(100),  batch_size |-> Fixed(100)],
     spike  |-> [workers |-> 15, delay |-> Fixed(50),   batch_size |-> Fixed(200)],
     chaos  |-> [workers |-> 8,  delay |-> Random,      batch_size |-> Random]]

Min(a, b) == IF a <= b THEN a ELSE b

VARIABLES
    mode,         \* self.mode
    running,      \* self.running, the stop flag
    stats,        \* self.stats, the four counters
    used,         \* the workers whose connection is checked out of self.pool
    poolClosed,   \* self.pool.closeall() has run
    opc,          \* position of run()
    submitted,    \* number of workers submitted to the ThreadPoolExecutor
    finalStats,   \* the counters as printed by the final summary
    rpc,          \* position of print_stats()
    shown,        \* the values of the last periodic print
    periodicMax,  \* per counter, the largest value a periodic print has shown
    wpc,          \* position of each worker
    wop,          \* the operation the worker picked
    wq,           \* select_records: the query last run (1 aggregation, 2 join)
    winc,         \* local `batch` / `updated` / `deleted`, or 1 in select_records
    wtmp,         \* the counter value loaded by `+=`
    wdelay,       \* local `delay` of a sleeping worker, in milliseconds
    tx,           \* transaction status of the worker's connection
    opsBegun,     \* executor calls begun in the run
    rowsInserted  \* rows the committed INSERT statements added to the store

vars == <<mode, running, stats, used, poolClosed, opc, submitted, finalStats,
          rpc, shown, periodicMax, wpc, wop, wq, winc, wtmp, wdelay, tx,
          opsBegun,
          rowsInserted>>

orchVars == <<opc, submitted, finalStats>>
reporterVars == <<rpc, shown, periodicMax>>
workerVars == <<wpc, wop, wq, winc, wtmp, wdelay, tx, opsBegun>>

\* workers = config['workers']
WorkerCount == configs[mode].workers

Workers == 1..WorkerCount

ZeroStats == [c \in Counters |-> 0]

\* every executor counts in stats['inserts']
CounterInserts(op) == "inserts"

Counter(op) ==
    CASE op = "insert" -> "inserts"
      [] op = "update" -> "updates"
      [] op = "select" -> "selects"
      [] op = "delete" -> "deletes"

\* the state run() starts in, after __init__
Constructed ==
    /\ running = TRUE
    /\ stats = ZeroStats
    /\ used = {}
    /\ poolClosed = FALSE
    /\ opc = "start"
    /\ submitted = 0
    /\ finalStats = ZeroStats
    /\ rpc = "unstarted"
    /\ shown = [total |-> 0, inserts |-> 0, updates |-> 0, selects |-> 0, deletes |-> 0]
    /\ periodicMax = ZeroStats
    /\ wpc = [w \in Workers |-> "unstarted"]
    /\ wop = [w \in Workers |-> "none"]
    /\ wq = [w \in Workers |-> 0]
    /\ winc = [w \in Workers |-> 0]
    /\ wtmp = [w \in Workers |-> 0]
    /\ wdelay = [w \in Workers |-> 0]
    /\ tx = [w \in Workers |-> "idle"]
    /\ opsBegun = 0
    /\ rowsInserted = 0

Init ==
    /\ mode \in SpecModes
    /\ Constructed

\* ---- connection pool (get_connection / release_connection) --------------

\* self.pool.getconn() raises when the pool is closed or all maxconn
\* connections are checked out, or when the server cannot be reached
CanAcquire(ok) == ok /\ ~poolClosed /\ Cardinality(used) < MAXCONN

get_connection(u, w) == u \cup {w}

\* the connection is not handed back
release_connection_leak(u, w) == u

release_connection(u, w) == u \ {w}

\* ---- what the statements compute ----------------------------------------

\* random.randint(10, 200), sampled at its two ends
RandomBatches == {RANDOM_BATCH_MIN, RANDOM_BATCH_MAX}

\* the 'random' sentinel is not resolved
BatchChoicesUnresolved(config) == {config.batch_size[2]}

\* batch = config['batch_size'] if config['batch_size'] != 'random' else randint
BatchChoices(config) ==
    IF IsRandom(config.batch_size) THEN RandomBatches ELSE {config.batch_size[2]}

\* random.uniform(0.1, 2.0), sampled at its two ends
RandomDelays == {RANDOM_DELAY_MIN, RANDOM_DELAY_MAX}

\* delay = config['delay']; if delay == 'random': delay = random.uniform(0.1, 2.0)
DelayChoices(config) ==
    IF IsRandom(config.delay) THEN RandomDelays ELSE {config.delay[2]}

\* the number of rows the inner SELECT's WHERE clause matches in the store:
\* none, or more than either LIMIT
MatchedRows == {0, UPDATE_LIMIT + 1}

\* cur.rowcount of `... WHERE id IN (SELECT id ... LIMIT limit)`
Rowcount(matched, limit) == Min(matched, limit)

Limit(op) == IF op = "update" THEN UPDATE_LIMIT ELSE DELETE_LIMIT

\* the local the counter is increased by
Resolved(op, batch, matched) ==
    CASE op = "insert" -> batch
      [] op = "select" -> 1
      [] OTHER -> Rowcount(matched, Limit(op))

\* the store of `self.stats[k] += n`: the loaded value plus n
Incremented(loaded, n) == loaded + n

\* `while True:`
LoopConditionAlways(flag) == TRUE

\* `while self.running:`
LoopCondition(flag) == flag

\* The try / except of an executor, as the status it leaves the transaction
\* in.  insert, update and delete: execute, commit; on an exception of either,
\* rollback, which can raise in turn.  select: execute only; no commit, and
\* its except clause only prints.
TxAfter(op, execOk, commitOk, rollbackOk) ==
    IF op = "select"
    THEN IF execOk THEN "open" ELSE "error"
    ELSE IF execOk /\ commitOk THEN "committed"
         ELSE IF rollbackOk THEN "rolledback" ELSE "broken"

\* the try block reached its `self.stats[k] += n`
Succeeded(t) == t \in {"open", "committed"}

\* an exception raised inside the except clause leaves the executor
Raises(t) == t = "broken"

\* ---- worker(worker_id) --------------------------------------------------

\* line 194-199: test the flag, pick the operation
WorkerLoopTop(w) ==
    /\ wpc[w] = "top"
    /\ IF LoopCondition(running)
       THEN /\ opsBegun < MaxOps
            /\ \E op \in {o \in OPERATIONS : WEIGHTS[o] > 0} :
                 wop' = [wop EXCEPT ![w] = op]
            /\ wpc' = [wpc EXCEPT ![w] = "call"]
            /\ opsBegun' = opsBegun + 1
       ELSE /\ wpc' = [wpc EXCEPT ![w] = "stopped"]
            /\ UNCHANGED <<wop, opsBegun>>
    /\ UNCHANGED <<mode, running, stats, used, poolClosed, orchVars, reporterVars,
                   wq, winc, wtmp, wdelay, tx, rowsInserted>>

\* line 201-208: the executor is called.  conn = self.get_connection() stands
\* before the try, so its exception leaves the executor and worker().  Then
\* the try block up to the counter, or the except clause.
ExecutorBegin(w) ==
    /\ wpc[w] = "call"
    /\ \E ok \in BOOLEAN :
         IF CanAcquire(ok)
         THEN /\ used' = get_connection(used, w)
              /\ \E execOk \in BOOLEAN, commitOk \in BOOLEAN, rollbackOk \in BOOLEAN,
                    batch \in BatchChoices(configs[mode]), matched \in MatchedRows :
                   LET t == TxAfter(wop[w], execOk, commitOk, rollbackOk) IN
                   /\ tx' = [tx EXCEPT ![w] = t]
                   /\ winc' = [winc EXCEPT ![w] =
                                 IF Succeeded(t) THEN Resolved(wop[w], batch, matched) ELSE 0]
                   /\ wpc' = [wpc EXCEPT ![w] = IF Succeeded(t) THEN "load" ELSE "release"]
                   /\ rowsInserted' = IF wop[w] = "insert" /\ t = "committed"
                                      THEN rowsInserted + batch ELSE rowsInserted
              /\ wq' = [wq EXCEPT ![w] = 1]
         ELSE /\ wpc' = [wpc EXCEPT ![w] = "dead"]
              /\ UNCHANGED <<used, wq, winc, tx, rowsInserted>>
    /\ UNCHANGED <<mode, running, stats, poolClosed, orchVars, reporterVars,
                   wop, wtmp, wdelay, opsBegun>>

\* self.stats[k] += n, the load
ExecutorLoad(w) ==
    /\ wpc[w] = "load"
    /\ wtmp' = [wtmp EXCEPT ![w] = stats[Counter(wop[w])]]
    /\ wpc' = [wpc EXCEPT ![w] = "store"]
    /\ UNCHANGED <<mode, running, stats, used, poolClosed, orchVars, reporterVars,
                   wop, wq, winc, wdelay, tx, opsBegun, rowsInserted>>

\* self.stats[k] += n, the store.  select_records then draws
\* random.random() > 0.7 and runs the join query, which can raise
ExecutorStore(w) ==
    /\ wpc[w] = "store"
    /\ stats' = [stats EXCEPT ![Counter(wop[w])] = Incremented(wtmp[w], winc[w])]
    /\ \E join \in BOOLEAN, execOk \in BOOLEAN :
         IF wop[w] = "select" /\ wq[w] = 1 /\ join
         THEN /\ wq' = [wq EXCEPT ![w] = 2]
              /\ tx' = [tx EXCEPT ![w] = TxAfter("select", execOk, TRUE, TRUE)]
              /\ wpc' = [wpc EXCEPT ![w] = IF execOk THEN "load" ELSE "release"]
         ELSE /\ wpc' = [wpc EXCEPT ![w] = "release"]
              /\ UNCHANGED <<wq, tx>>
    /\ UNCHANGED <<mode, running, used, poolClosed, orchVars, reporterVars,
                   wop, winc, wtmp, wdelay, opsBegun, rowsInserted>>

\* finally: self.release_connection(conn).  Then the executor returns and the
\* worker resolves its delay (line 210-213), or the exception of the rollback
\* leaves the executor and worker()
ExecutorRelease(w) ==
    /\ wpc[w] = "release"
    /\ used' = release_connection(used, w)
    /\ IF Raises(tx[w])
       THEN /\ wpc' = [wpc EXCEPT ![w] = "dead"]
            /\ UNCHANGED <<wop, wq, winc, wtmp, wdelay, tx>>
       ELSE /\ wpc' = [wpc EXCEPT ![w] = "sleep"]
            /\ \E delay \in DelayChoices(configs[mode]) :
                 wdelay' = [wdelay EXCEPT ![w] = delay]
            /\ wop' = [wop EXCEPT ![w] = "none"]
            /\ wq' = [wq EXCEPT ![w] = 0]
            /\ winc' = [winc EXCEPT ![w] = 0]
            /\ wtmp' = [wtmp EXCEPT ![w] = 0]
            /\ tx' = [tx EXCEPT ![w] = "idle"]
    /\ UNCHANGED <<mode, running, stats, poolClosed, orchVars, reporterVars,
                   opsBegun, rowsInserted>>

\* line 214: time.sleep(delay) returns, back to the loop test
WorkerSleep(w) ==
    /\ wpc[w] = "sleep"
    /\ wpc' = [wpc EXCEPT ![w] = "top"]
    /\ wdelay' = [wdelay EXCEPT ![w] = 0]
    /\ UNCHANGED <<mode, running, stats, used, poolClosed, orchVars, reporterVars,
                   wop, wq, winc, wtmp, tx, opsBegun, rowsInserted>>

\* the worker threads the ThreadPoolExecutor runs
Worker ==
    \/ \E w \in Workers : WorkerLoopTop(w)
    \/ \E w \in Workers : ExecutorBegin(w)
    \/ \E w \in Workers : ExecutorLoad(w)
    \/ \E w \in Workers : ExecutorStore(w)
    \/ \E w \in Workers : ExecutorRelease(w)
    \/ \E w \in Workers : WorkerSleep(w)

\* ---- print_stats() ------------------------------------------------------

\* the interpreter exits when run() returns and takes the daemon thread along
ProcessAlive == opc # "done"

Max(a, b) == IF a >= b THEN a ELSE b

Sum(s) == s["inserts"] + s["updates"] + s["selects"] + s["deletes"]

\* `while self.running:`
ReporterCheck ==
    /\ ProcessAlive
    /\ rpc = "check"
    /\ rpc' = IF running THEN "sleep" ELSE "exit"
    /\ UNCHANGED <<mode, running, stats, used, poolClosed, orchVars, shown,
                   periodicMax, workerVars, rowsInserted>>

\* time.sleep(10); total = sum(self.stats.values()); print(... total)
ReporterTotal ==
    /\ ProcessAlive
    /\ rpc = "sleep"
    /\ shown' = [shown EXCEPT !.total = Sum(stats)]
    /\ rpc' = "line2"
    /\ UNCHANGED <<mode, running, stats, used, poolClosed, orchVars,
                   periodicMax, workerVars, rowsInserted>>

\* print(f"Inserts: {self.stats['inserts']} | Updates: {self.stats['updates']}")
ReporterInsertsUpdates ==
    /\ ProcessAlive
    /\ rpc = "line2"
    /\ shown' = [shown EXCEPT !.inserts = stats["inserts"], !.updates = stats["updates"]]
    /\ periodicMax' = [periodicMax EXCEPT !["inserts"] = Max(@, stats["inserts"]),
                                          !["updates"] = Max(@, stats["updates"])]
    /\ rpc' = "line3"
    /\ UNCHANGED <<mode, running, stats, used, poolClosed, orchVars,
                   workerVars, rowsInserted>>

\* print(f"Selects: {self.stats['selects']} | Deletes: {self.stats['deletes']}")
ReporterSelectsDeletes ==
    /\ ProcessAlive
    /\ rpc = "line3"
    /\ shown' = [shown EXCEPT !.selects = stats["selects"], !.deletes = stats["deletes"]]
    /\ periodicMax' = [periodicMax EXCEPT !["selects"] = Max(@, stats["selects"]),
                                          !["deletes"] = Max(@, stats["deletes"])]
    /\ rpc' = "check"
    /\ UNCHANGED <<mode, running, stats, used, poolClosed, orchVars,
                   workerVars, rowsInserted>>

Reporter ==
    \/ ReporterCheck
    \/ ReporterTotal
    \/ ReporterInsertsUpdates
    \/ ReporterSelectsDeletes

\* ---- run() --------------------------------------------------------------

\* stats_thread.start()
OrchStartStats ==
    /\ opc = "start"
    /\ rpc' = "check"
    /\ opc' = "submit"
    /\ UNCHANGED <<mode, running, stats, used, poolClosed, submitted, finalStats,
                   shown, periodicMax, workerVars, rowsInserted>>

\* futures = [executor.submit(self.worker, i) for i in range(workers)]
OrchSubmit ==
    /\ opc = "submit"
    /\ submitted < WorkerCount
    /\ submitted' = submitted + 1
    /\ wpc' = [wpc EXCEPT ![submitted + 1] = "top"]
    /\ opc' = IF submitted + 1 = WorkerCount THEN "wait" ELSE "submit"
    /\ UNCHANGED <<mode, running, stats, used, poolClosed, finalStats, reporterVars,
                   wop, wq, winc, wtmp, wdelay, tx, opsBegun, rowsInserted>>

\* except KeyboardInterrupt: self.running = False, inside the try of run()
Interrupt ==
    /\ opc \in {"submit", "wait"}
    /\ running' = FALSE
    /\ opc' = "join"
    /\ UNCHANGED <<mode, stats, used, poolClosed, submitted, finalStats, reporterVars,
                   workerVars, rowsInserted>>

Terminated(pc) == pc \in {"unstarted", "stopped", "dead"}

\* shutdown(wait=False)
ShutdownNoWait(pcs) == TRUE

\* leaving `with ThreadPoolExecutor(...)`: shutdown(wait=True) joins the workers
ShutdownReturns(pcs) == \A w \in DOMAIN pcs : Terminated(pcs[w])

OrchJoin ==
    /\ opc = "join"
    /\ ShutdownReturns(wpc)
    /\ opc' = "final"
    /\ UNCHANGED <<mode, running, stats, used, poolClosed, submitted, finalStats,
                   reporterVars, workerVars, rowsInserted>>

\* line 252-260: the final summary
OrchFinalStats ==
    /\ opc = "final"
    /\ finalStats' = stats
    /\ opc' = "close"
    /\ UNCHANGED <<mode, running, stats, used, poolClosed, submitted,
                   reporterVars, workerVars, rowsInserted>>

\* self.pool.closeall()
OrchCloseAll ==
    /\ opc = "close"
    /\ poolClosed' = TRUE
    /\ opc' = "done"
    /\ UNCHANGED <<mode, running, stats, used, submitted, finalStats,
                   reporterVars, workerVars, rowsInserted>>

Orchestrator ==
    \/ OrchStartStats
    \/ OrchSubmit
    \/ Interrupt
    \/ OrchJoin
    \/ OrchFinalStats
    \/ OrchCloseAll

Next ==
    \/ Orchestrator
    \/ Reporter
    \/ Worker

Spec == Init /\ [][Next]_vars

\* ---- the scheduling of the threads -------------------------------------

\* the workers of the profile Spec runs
SpecWorkers == 1..configs[CHOOSE m \in SpecModes : TRUE].workers

\* a step of worker w: a database call or a sleep that returns, or a
\* statement of the thread that the interpreter gets to run
WorkerStep(w) ==
    \/ WorkerLoopTop(w)
    \/ ExecutorBegin(w)
    \/ ExecutorLoad(w)
    \/ ExecutorStore(w)
    \/ ExecutorRelease(w)
    \/ WorkerSleep(w)

\* Every thread that can run does run: each database call and each sleep
\* returns, and run() goes on after its workers ended.  The interrupt comes
\* from outside: nothing is assumed of it.
Fairness ==
    /\ \A w \in SpecWorkers : WF_vars(WorkerStep(w))
    /\ WF_vars(OrchJoin \/ OrchFinalStats \/ OrchCloseAll)

\* run() and its workers; the reporter writes nothing they read
NextForeground ==
    \/ Orchestrator
    \/ Worker

FairSpec == Init /\ [][NextForeground]_vars /\ Fairness

\* ---- every profile, up to the interrupt ---------------------------------

\* parser.add_argument('--mode', choices=[...])
InitProfiles ==
    /\ mode \in Modes
    /\ Constructed

\* the workers that are scheduled: those every profile has
ProfiledWorkers == {w \in Workers : \A m \in Modes : w <= configs[m].workers}

NextProfiles ==
    \/ OrchStartStats
    \/ OrchSubmit
    \/ \E w \in ProfiledWorkers : WorkerLoopTop(w)
    \/ \E w \in ProfiledWorkers : ExecutorBegin(w)
    \/ \E w \in ProfiledWorkers : ExecutorLoad(w)
    \/ \E w \in ProfiledWorkers : ExecutorStore(w)
    \/ \E w \in ProfiledWorkers : ExecutorRelease(w)
    \/ \E w \in ProfiledWorkers : WorkerSleep(w)

SpecProfiles == InitProfiles /\ [][NextProfiles]_vars

\* ======================= the claims ======================================

\* the worker is inside an executor, between its getconn and its putconn
InFlight(w) == wpc[w] \in {"load", "store", "release"}

\* the step is the store of worker w's `self.stats[k] += n`
Stores(w) == wpc[w] = "store" /\ wpc'[w] # "store"

FinalPrinted == opc \in {"close", "done"}

\* C1: a failed operation never raises out of the worker loop: whatever call
\* fails (acquire, execute, commit, rollback), the executor returns to the
\* worker, so no worker thread is ever ended by an exception.
C1_NoWorkerDies == \A w \in Workers : wpc[w] # "dead"

\* C2: every connection an executor acquires is released before the executor
\* returns or raises, on every path: the checked-out connections are exactly
\* those of the executors in flight, one each, and none when none is in flight.
C2_CheckedOutIsInFlight ==
    /\ used = {w \in Workers : InFlight(w)}
    /\ Cardinality(used) = Cardinality({w \in Workers : InFlight(w)})

\* C2 witness: a worker left its executor on the failure path (rollback
\* raised) with its connection handed back, while the other is in flight.
C2_Witness ==
    \E w, v \in Workers :
        /\ wpc[w] = "dead" /\ tx[w] = "broken" /\ w \notin used
        /\ InFlight(v) /\ used = {v}

\* C3: the insert counter increases by the resolved batch size on each
\* successful insert call and by zero on a failed one, whatever the workers
\* do concurrently: once no insert call is under way, the counter is the sum
\* of the batch sizes of the insert calls that committed.
C3_InsertsEqualCommittedBatches ==
    (\A w \in Workers : wop[w] # "insert" \/ Terminated(wpc[w]) \/ wpc[w] = "call")
        => stats["inserts"] = rowsInserted

\* C4: no step of any interleaving makes a counter smaller.
C4_CountersMonotonic == [][\A c \in Counters : stats'[c] >= stats[c]]_vars

\* C5 as claimed: once the stop flag is set, no worker begins an executor call.
C5_NoCallBeginsAfterStop ==
    [][\A w \in Workers : (~running /\ wpc[w] = "call") => wpc'[w] = "call"]_vars

\* C5 as amended: once the stop flag is set, no worker passes the loop test
\* again; an executor call begun after that is the one of an iteration whose
\* loop test was passed before the flag was set, at most one per worker.
C5_NoLoopEntryAfterStop ==
    [][\A w \in Workers : (~running /\ wpc[w] # "call") => wpc'[w] # "call"]_vars

\* C5 witness: the flag is set, one worker has seen it and stopped, another
\* has passed its loop test before and still holds its executor call.
C5_Witness ==
    /\ ~running
    /\ \E w, v \in Workers : wpc[w] = "stopped" /\ wpc[v] = "call"

\* C6: the final summary shows, for each counter, a value not smaller than
\* any periodic print before it showed.
C6_FinalNotBelowPeriodic ==
    [][(opc = "final" /\ opc' = "close")
          => \A c \in Counters : finalStats'[c] >= periodicMax[c]]_vars

\* C7: shutdown ordering.  The final summary is printed only when every worker
\* loop has ended, and shows the counters' last values; the pool is closed
\* only after it, so no worker holds or takes a connection of a closed pool.
C7_ShutdownOrder ==
    /\ opc \in {"final", "close", "done"} => \A w \in Workers : Terminated(wpc[w])
    /\ FinalPrinted => finalStats = stats
    /\ poolClosed => /\ FinalPrinted
                     /\ used = {}
                     /\ \A w \in Workers : Terminated(wpc[w])

\* C7 witness: the pool is closed after a run in which a worker counted
\* operations and stopped, and the final summary shows them.
C7_Witness ==
    /\ poolClosed
    /\ \E w \in Workers : wpc[w] = "stopped"
    /\ Sum(finalStats) > 0

\* C8: while the stop flag is unset, every worker loop that was started is
\* still running.
C8_RunningWhileFlagUnset ==
    running => \A w \in Workers : wpc[w] \notin {"stopped", "dead"}

\* C9: every executor hands its connection back only after the transaction
\* was committed (the statement succeeded) or rolled back (it failed).
C9_CommitOrRollbackBeforeRelease ==
    \A w \in Workers : wpc[w] = "release" => tx[w] \in {"committed", "rolledback"}

\* C10: each update or delete call increases its counter by the number of
\* affected rows, which is within the statement's LIMIT and never negative.
C10_UpdateDeleteAddRowcount ==
    [][\A w \in Workers :
         (Stores(w) /\ wop[w] \in {"update", "delete"})
            => /\ stats'[Counter(wop[w])] = stats[Counter(wop[w])] + winc[w]
               /\ winc[w] \in 0..Limit(wop[w])]_vars

\* C11: for each of the five modes, the number of worker loops started, the
\* delay of an iteration and the batch size of an insert call are those of
\* the profile table; in chaos the delay lies in [0.1 s, 2.0 s] and the batch
\* size in 10..200, and each is drawn again at every operation: whatever was
\* drawn before, either end of the range can be drawn at the next one.
C11_ProfilesMatchTable ==
    LET table ==
            [light  |-> [workers |-> 2,  delay |-> {1000}, batch |-> {10}],
             medium |-> [workers |-> 5,  delay |-> {500},  batch |-> {50}],
             heavy  |-> [workers |-> 10, delay |-> {100},  batch |-> {100}],
             spike  |-> [workers |-> 15, delay |-> {50},   batch |-> {200}],
             chaos  |-> [workers |-> 8,  delay |-> 100..2000, batch |-> 10..200]]
    IN
    /\ opc = "wait" => /\ submitted = table[mode].workers
                       /\ \A w \in 1..table[mode].workers : wpc[w] # "unstarted"
    /\ DOMAIN wpc = 1..table[mode].workers
    /\ \A w \in Workers :
          /\ wpc[w] = "sleep" => wdelay[w] \in table[mode].delay
          /\ (wop[w] = "insert" /\ wpc[w] \in {"load", "store"})
                => winc[w] \in table[mode].batch
          /\ (mode = "chaos" /\ wop[w] = "insert" /\ wpc[w] = "call")
                => \A b \in {10, 200} : ENABLED (ExecutorBegin(w) /\ winc'[w] = b)
          /\ (mode = "chaos" /\ wpc[w] = "release" /\ ~Raises(tx[w]))
                => \A d \in {100, 2000} : ENABLED (ExecutorRelease(w) /\ wdelay'[w] = d)

\* C11 witness: in chaos, the only worker submitted so far has made two
\* insert calls, one of 10 rows and one of 200, and now sleeps for 2.0 s.
C11_Witness ==
    /\ mode = "chaos"
    /\ submitted = 1
    /\ rowsInserted = RANDOM_BATCH_MIN + RANDOM_BATCH_MAX
    /\ wpc[1] = "sleep" /\ wdelay[1] = RANDOM_DELAY_MAX

\* C12: the total a periodic print shows is the sum of the inserts, updates,
\* selects and deletes values the same print shows, also while workers
\* update the counters.
C12_TotalIsSumOfPrinted ==
    rpc \in {"check", "exit"}
        => shown.total = shown.inserts + shown.updates + shown.selects + shown.deletes

C14_ShutdownLive ==
    /\ ~running ~> (\A w \in SpecWorkers : Terminated(wpc[w]))
    /\ ~running ~> (FinalPrinted /\ poolClosed /\ opc = "done")
    /\ [][\A w \in SpecWorkers :
            (~running /\ wpc[w] = "top") => wpc'[w] \in {"top", "stopped"}]_vars

\* C14 witness: the run is over, the pool closed, every worker stopped at its
\* loop test after making the calls of the run.
C14_Witness ==
    /\ opc = "done" /\ poolClosed
    /\ opsBegun = MaxOps
    /\ \A w \in Workers : wpc[w] = "stopped"

\* C15: a select call adds to the select counter only when it succeeds: a
\* call in which a query failed has added nothing.  Stated for the first
\* call of a run, so that no other call touches the counter.
C15_FailedSelectAddsNothing ==
    \A w \in Workers :
        (opsBegun = 1 /\ wop[w] = "select" /\ wpc[w] = "release" /\ tx[w] = "error")
            => stats["selects"] = 0

\* C16: the reporter stops at its next test of the stop flag, so after the
\* flag is set it starts no print once it has tested the flag; and after the
\* final summary is printed it prints nothing.
C16_ReporterStops ==
    [][/\ (~running /\ rpc = "check") => rpc' \in {"check", "exit"}
       /\ FinalPrinted => rpc' \in {rpc, "exit"}]_vars

\* C17: a step changes a counter only when it is the store of an executor,
\* and then only the counter of that executor's operation; the stop flag is
\* changed only by the interrupt handler, and once unset stays unset.
C17_Frame ==
    [][/\ \A c \in Counters :
             stats'[c] # stats[c]
                => \E w \in Workers :
                     /\ Stores(w)
                     /\ c = [insert |-> "inserts", update |-> "updates",
                             select |-> "selects", delete |-> "deletes"][wop[w]]
       /\ running' # running => (opc \in {"submit", "wait"} /\ opc' = "join")
       /\ ~running => ~running']_vars

\* C17 witness: after the interrupt, delete calls have counted rows and the
\* other three counters are as they were.
C17_Witness ==
    /\ ~running
    /\ stats["deletes"] > 0
    /\ stats["inserts"] = 0 /\ stats["updates"] = 0 /\ stats["selects"] = 0

====
